---- MODULE Spec2Model ----
(***************************************************************************)
(* Model of nix_tcp.hpp: class TcpSocket, a blocking one-to-one TCP        *)
(* wrapper with a fixed-size packet framing.  Two TcpSocket objects (1 and *)
(* 2) live in one process, as in nix_tcp_test.cpp; the kernel side of the  *)
(* connection (listen backlog, byte streams, descriptor table) is the      *)
(* environment.                                                            *)
(***************************************************************************)
EXTENDS Integers, Sequences, FiniteSets, TLC

\* ------------------------------------------------------------------ bounds
MaxFrame == 3        \* packet_len ranges over 2..MaxFrame
MaxLen   == 3        \* length of the vectors passed to send
MaxSends == 1        \* send calls made in a run
MaxBurst == 2        \* send calls made in a run of back-to-back sends
MaxCand  == 2        \* addrinfo entries returned by getaddrinfo
MaxForge == 2        \* packets written by a peer that is not a TcpSocket
MaxSpin  == 3        \* iterations of send's loop followed in one call

\* ------------------------------------------------------- sets of inputs
E == {1, 2}
Other(e) == 3 - e

FrameSizes == 2..MaxFrame
\* the uint8_t values below the smallest packet that can carry a byte
TinySizes == {0, 1}

\* the vector built by the test program: consecutive byte values
Iota(k) == [i \in 1..k |-> i % 256]
Msgs == {Iota(k) : k \in 0..MaxLen}

\* errno values left by a failing system call (EBADF), and by a failing
\* ::accept (EINTR, EBADF)
Errnos == {9}
AcceptErrnos == {4, 9}
\* values a failing getaddrinfo returns (EAI_NONAME)
GaiErrs == {0 - 2}
\* what each addrinfo entry does to bind's loop body
BindOutcomes == {"sockfail", "optfail", "bindfail", "ok"}
\* what each addrinfo entry does to connect's loop body
ConnOutcomes == {"sockfail", "connfail", "ok"}
\* values an out-of-range read of the packet vector may produce
Garbage == {0, 255}
\* values of the payload and padding bytes of a packet written by hand
ForgedBytes == {0, 1}

RECURSIVE SeqsUpTo(_, _)
SeqsUpTo(S, n) ==
  IF n = 0 THEN {<<>>}
  ELSE LET shorter == SeqsUpTo(S, n - 1)
       IN  shorter \cup {Append(s, x) : s \in {t \in shorter : Len(t) = n - 1}, x \in S}

\* the addrinfo lists: the entries behind the one that ends the loop are
\* never read and are left out
CandLists(S) ==
  {c \in SeqsUpTo(S, MaxCand) \ {<<>>} :
     \A i \in 1..(Len(c) - 1) : c[i] \notin {"ok", "optfail"}}

Min(a, b) == IF a < b THEN a ELSE b

\* --------------------------------------------------------------- TcpError
TcpError(c, m) == [code |-> c, message |-> m]
NoError == TcpError(0, "")
\* stands in result for a call that has not ended yet
Running == TcpError(0, "...")

AlreadyBound     == TcpError(0 - 1, "socket already bound")
NotBound         == TcpError(0 - 2, "socket unbound")
AlreadyConnected == TcpError(0 - 1, "socket already connected")
NotConnected     == TcpError(0 - 2, "socket disconnected")
BindFailed       == TcpError(1, "couldn't bind to any address")
ConnectFailed    == TcpError(1, "couldn't connect to any address")
ShortRead        == TcpError(1, "invalid received packet length")
ResolutionFailed(g) == TcpError(g, "gai_strerror")
SockOptFailed(en)   == TcpError(en, "couldn't set socket options")
ListenFailed(en)    == TcpError(en, "couldn't listen for connections")
WriteFailed(en)     == TcpError(en, "couldn't send data")
ReadFailed(en)      == TcpError(en, "couldn't send data")

\* ------------------------------------------------------------------ state
VARIABLES
  sockfd,         \* [E -> optional int]   <<>> is std::nullopt, <<v>> holds v
  remote_sockfd,  \* [E -> optional int]
  packet_len,     \* [E -> 0..255]
  pc,             \* [E -> where the object's single flow of control is]
  result,         \* [E -> outcome of the last call that returned or threw]
  errno,          \* [E -> errno of the calling thread]
  listening,      \* [E -> BOOLEAN]  listen() succeeded on sockfd
  backlog,        \* [E -> SUBSET E] connections completed, not yet accepted
  openfds,        \* descriptors open in the process
  inflight,       \* [E -> Seq(Seq(byte))] segments on their way to e
  rcvbuf,         \* [E -> Seq(byte)] bytes ::recv on e can return
  fin,            \* [E -> BOOLEAN] the peer closed its end of the connection
  s_data,         \* send: data
  s_offset,       \* send: offset
  s_packet,       \* send: packet
  written,        \* [E -> Seq(Seq(byte))] buffers ::send accepted in this call
  r_data,         \* recv: data
  r_packet,       \* recv: packet
  r_i,            \* recv: i
  io,             \* [E -> Nat] ::send / ::recv calls made by this call
  sentlog,        \* [E -> Seq(Seq(byte))] vectors passed to send, in order
  recvlog,        \* [E -> Seq(Seq(byte))] vectors returned by recv, in order
  iofail,         \* [E -> BOOLEAN] a ::send or ::recv of e has failed
  held,           \* [E -> SUBSET Int] descriptors e got from socket() or
                  \*   ::accept() and has not passed to close()
  closelog,       \* [E -> Seq(Int)] descriptors ~TcpSocket passed to close()
  wire,           \* [E -> Seq(Seq(byte))] every buffer written toward e
  role            \* [E -> the thread function of the test driving e]

lifeVars == <<sockfd, remote_sockfd, packet_len, errno, listening, backlog, openfds, held>>
netVars  == <<inflight, rcvbuf, fin, wire>>
sendVars == <<s_data, s_offset, s_packet, written, sentlog>>
recvVars == <<r_data, r_packet, r_i, recvlog>>
vars == <<lifeVars, netVars, sendVars, recvVars, pc, result, io, iofail, closelog, role>>

\* ------------------------------------------------------- small accessors
has_value(o) == o # <<>>
nullopt == <<>>
\* the descriptor close(*o) is called on
Fds(o) == {o[i] : i \in 1..Len(o)}

\* is_bound() that always answers yes
is_bound_unchecked(e) == TRUE
\* is_bound() looking at the wrong handle
is_bound_wrong(e) == has_value(remote_sockfd[e])
is_bound(e) == has_value(sockfd[e])
\* is_connected() that always answers no
is_connected_never(e) == FALSE
\* is_connected() looking at the wrong handle
is_connected_wrong(e) == has_value(sockfd[e])
is_connected(e) == has_value(remote_sockfd[e])

\* the lifecycle state the two handles encode
Life(e) ==
  IF remote_sockfd[e] # <<>> THEN "Connected"
  ELSE IF sockfd[e] # <<>> THEN "Bound" ELSE "Unbound"

\* socket() and accept() hand out the lowest descriptor not in use
LowestFree(open) ==
  CHOOSE n \in 3..(3 + Cardinality(open)) :
    n \notin open /\ \A m \in 3..(n - 1) : m \in open

Zeros(n) == [i \in 1..n |-> 0]

Returned(op, was, err) == [op |-> op, was |-> was, err |-> err]

\* a call that blocks or loops is under way until it ends.
\* How a call ends: it returns, or it throws a TcpError, which takes the
\* caller out of the scope of the object (nix_tcp_test.cpp, the try blocks)
\* where only the destructor is left to run
Enters(e, op, was) ==
  /\ result' = [result EXCEPT ![e] = Returned(op, was, Running)]
  /\ pc' = [pc EXCEPT ![e] = op]
Throws(e, op, was, err) ==
  /\ result' = [result EXCEPT ![e] = Returned(op, was, err)]
  /\ pc' = [pc EXCEPT ![e] = "thrown"]
Returns(e, op, was) ==
  /\ result' = [result EXCEPT ![e] = Returned(op, was, NoError)]
  /\ pc' = [pc EXCEPT ![e] = "idle"]

\* ------------------------------------------------------------ constructor
TcpSocketInit(f) ==
  /\ held = [e \in E |-> {}]
  /\ closelog = [e \in E |-> <<>>]
  /\ wire = [e \in E |-> <<>>]
  /\ sockfd = [e \in E |-> nullopt]
  /\ remote_sockfd = [e \in E |-> nullopt]
  /\ packet_len = f
  /\ pc = [e \in E |-> "idle"]
  /\ result = [e \in E |-> Returned("new", "Unbound", NoError)]
  /\ errno = [e \in E |-> 0]
  /\ listening = [e \in E |-> FALSE]
  /\ backlog = [e \in E |-> {}]
  /\ openfds = {}
  /\ inflight = [e \in E |-> <<>>]
  /\ rcvbuf = [e \in E |-> <<>>]
  /\ fin = [e \in E |-> FALSE]
  /\ s_data = [e \in E |-> <<>>]
  /\ s_offset = [e \in E |-> 0]
  /\ s_packet = [e \in E |-> <<>>]
  /\ written = [e \in E |-> <<>>]
  /\ r_data = [e \in E |-> <<>>]
  /\ r_packet = [e \in E |-> <<>>]
  /\ r_i = [e \in E |-> 0]
  /\ io = [e \in E |-> 0]
  /\ sentlog = [e \in E |-> <<>>]
  /\ recvlog = [e \in E |-> <<>>]
  /\ iofail = [e \in E |-> FALSE]

\* both peers constructed with the same packet length, as in the test
Unscripted == [e \in E |-> "main"]
Init == \E f \in FrameSizes : TcpSocketInit([e \in E |-> f]) /\ role = Unscripted

\* ------------------------------------------------- the system-call layer
\* What the system calls under the wrapper may do, as sets of outcomes:
\*   gai     values getaddrinfo returns (0 is success)
\*   binds   addrinfo lists bind walks, each entry with its outcome
\*   conns   addrinfo lists connect walks, each entry with its outcome
\*   listen  errno of listen (0 is success)
\*   accept  errno of ::accept (0 is success)
\*   send    errno of ::send (0 is success)
\*   recv    errno of ::recv (0 is success)
\*   sockopt errno of a failing setsockopt
\*   short   bytes of the buffer a successful ::send leaves unwritten
\* every call may fail
Faulty ==
  [gai     |-> {0} \cup GaiErrs,
   binds   |-> CandLists(BindOutcomes),
   conns   |-> CandLists(ConnOutcomes),
   listen  |-> {0} \cup Errnos,
   accept  |-> {0} \cup AcceptErrnos,
   send    |-> {0} \cup Errnos,
   recv    |-> {0} \cup Errnos,
   sockopt |-> Errnos,
   short   |-> {0}]
\* every call succeeds, on the first address
Reliable ==
  [gai     |-> {0},
   binds   |-> {<<"ok">>},
   conns   |-> {<<"ok">>},
   listen  |-> {0},
   accept  |-> {0},
   send    |-> {0},
   recv    |-> {0},
   sockopt |-> {},
   short   |-> {0}]
\* no call fails, but ::send may return after taking only a part of the
\* buffer (a signal arrives, the socket buffer fills up)
Interrupted ==
  [gai     |-> {0},
   binds   |-> {<<"ok">>},
   conns   |-> {<<"ok">>},
   listen  |-> {0},
   accept  |-> {0},
   send    |-> {0},
   recv    |-> {0},
   sockopt |-> {},
   short   |-> {0, 1}]

\* ------------------------------------------------------------------- bind
\* the for loop over the addrinfo list: what it leaves in sockfd and in the
\* descriptor table, and how it ended
RECURSIVE BindLoop(_, _, _)
BindLoop(cands, sfd, open) ==
  IF cands = <<>>
  THEN [sockfd |-> sfd, open |-> open, out |-> "exhausted"]
  ELSE LET c  == Head(cands)
           fd == LowestFree(open)
       IN  CASE c = "sockfail" -> BindLoop(Tail(cands), <<0 - 1>>, open)
             [] c = "optfail"  -> [sockfd |-> <<fd>>, open |-> open \cup {fd}, out |-> "optfail"]
             [] c = "bindfail" -> BindLoop(Tail(cands), <<fd>>, open)
             [] c = "ok"       -> [sockfd |-> <<fd>>, open |-> open \cup {fd}, out |-> "ok"]

bind(e, sys) ==
  /\ pc[e] = "idle"
  /\ LET was == Life(e) IN
     IF is_bound(e) THEN
       /\ Throws(e, "bind", was, AlreadyBound)
       /\ UNCHANGED <<sockfd, openfds, held, errno>>
     ELSE
       \E gai \in sys.gai :
         IF gai # 0 THEN
           /\ Throws(e, "bind", was, ResolutionFailed(gai))
           /\ UNCHANGED <<sockfd, openfds, held, errno>>
         ELSE
           \E cands \in sys.binds :
             LET l == BindLoop(cands, sockfd[e], openfds) IN
             /\ openfds' = l.open
             /\ held' = [held EXCEPT ![e] = @ \cup (l.open \ openfds)]
             /\ CASE l.out = "ok" ->
                       /\ sockfd' = [sockfd EXCEPT ![e] = l.sockfd]
                       /\ Returns(e, "bind", was)
                       /\ UNCHANGED errno
                  [] l.out = "optfail" ->
                       \E en \in sys.sockopt :
                         /\ sockfd' = [sockfd EXCEPT ![e] = l.sockfd]
                         /\ errno' = [errno EXCEPT ![e] = en]
                         /\ Throws(e, "bind", was, SockOptFailed(en))
                  [] l.out = "exhausted" ->
                       /\ sockfd' = [sockfd EXCEPT ![e] = nullopt]
                       /\ Throws(e, "bind", was, BindFailed)
                       /\ UNCHANGED errno
  /\ UNCHANGED <<remote_sockfd, packet_len, listening, backlog, io, iofail>>
  /\ UNCHANGED <<netVars, sendVars, recvVars, closelog, role>>

\* ----------------------------------------------------------------- accept
\* an accept that calls listen() before it tests is_connected()
accept_listens_first(e, sys) ==
  /\ pc[e] = "idle"
  /\ LET was == Life(e) IN
     IF ~is_bound(e) THEN
       /\ Throws(e, "accept", was, NotBound)
       /\ UNCHANGED <<errno, listening>>
     ELSE
       \E en \in sys.listen :
         IF en # 0 THEN
           /\ errno' = [errno EXCEPT ![e] = en]
           /\ Throws(e, "accept", was, ListenFailed(en))
           /\ UNCHANGED listening
         ELSE
           /\ listening' = [listening EXCEPT ![e] = TRUE]
           /\ UNCHANGED errno
           /\ IF is_connected(e)
              THEN Throws(e, "accept", was, AlreadyConnected)
              ELSE Enters(e, "accept", was)
  /\ UNCHANGED <<sockfd, remote_sockfd, packet_len, backlog, openfds, held, io, iofail>>
  /\ UNCHANGED <<netVars, sendVars, recvVars, closelog, role>>
\* the guards and listen(); on success the object enters the accept loop
accept(e, sys) ==
  /\ pc[e] = "idle"
  /\ LET was == Life(e) IN
     IF ~is_bound(e) THEN
       /\ Throws(e, "accept", was, NotBound)
       /\ UNCHANGED <<errno, listening>>
     ELSE IF is_connected(e) THEN
       /\ Throws(e, "accept", was, AlreadyConnected)
       /\ UNCHANGED <<errno, listening>>
     ELSE
       \E en \in sys.listen :
         IF en # 0 THEN
           /\ errno' = [errno EXCEPT ![e] = en]
           /\ Throws(e, "accept", was, ListenFailed(en))
           /\ UNCHANGED listening
         ELSE
           /\ listening' = [listening EXCEPT ![e] = TRUE]
           /\ Enters(e, "accept", was)
           /\ UNCHANGED errno
  /\ UNCHANGED <<sockfd, remote_sockfd, packet_len, backlog, openfds, held, io, iofail>>
  /\ UNCHANGED <<netVars, sendVars, recvVars, closelog, role>>

\* errno values of ::accept that a retry can get past (EINTR)
TransientErrnos == {4}
\* the last ::accept failed in a way that retrying does not cure
AcceptBroken(e) ==
  remote_sockfd[e] = <<0 - 1>> /\ errno[e] \notin TransientErrnos

\* one iteration of the while (true) loop: ::accept returns a descriptor
\* for a pending connection, or -1 with errno en
accept_loop(e, sys) ==
  /\ pc[e] = "accept"
  /\ \E en \in sys.accept :
       /\ AcceptBroken(e) => en = errno[e]
       /\ IF en = 0 THEN
            /\ backlog[e] # {}
            /\ LET fd == LowestFree(openfds) IN
               /\ remote_sockfd' = [remote_sockfd EXCEPT ![e] = <<fd>>]
               /\ openfds' = openfds \cup {fd}
               /\ held' = [held EXCEPT ![e] = @ \cup {fd}]
            /\ backlog' = [backlog EXCEPT ![e] = {}]
            /\ Returns(e, "accept", result[e].was)
            /\ UNCHANGED errno
          ELSE
            /\ remote_sockfd' = [remote_sockfd EXCEPT ![e] = <<0 - 1>>]
            /\ errno' = [errno EXCEPT ![e] = en]
            /\ UNCHANGED <<openfds, held, backlog, pc, result>>
  /\ UNCHANGED <<sockfd, packet_len, listening, io, iofail>>
  /\ UNCHANGED <<netVars, sendVars, recvVars, closelog, role>>

\* ---------------------------------------------------------------- connect
RECURSIVE ConnectLoop(_, _, _)
ConnectLoop(cands, rfd, open) ==
  IF cands = <<>>
  THEN [remote_sockfd |-> rfd, open |-> open, out |-> "exhausted"]
  ELSE LET c  == Head(cands)
           fd == LowestFree(open)
       IN  CASE c = "sockfail" -> ConnectLoop(Tail(cands), <<0 - 1>>, open)
             [] c = "connfail" -> ConnectLoop(Tail(cands), <<fd>>, open)
             [] c = "ok"       -> [remote_sockfd |-> <<fd>>, open |-> open \cup {fd}, out |-> "ok"]

connect(e, sys) ==
  /\ pc[e] = "idle"
  /\ LET was == Life(e) IN
     IF ~is_bound(e) THEN
       /\ Throws(e, "connect", was, NotBound)
       /\ UNCHANGED <<remote_sockfd, openfds, held, backlog>>
     ELSE IF is_connected(e) THEN
       /\ Throws(e, "connect", was, AlreadyConnected)
       /\ UNCHANGED <<remote_sockfd, openfds, held, backlog>>
     ELSE
       \E gai \in sys.gai :
         IF gai # 0 THEN
           /\ Throws(e, "connect", was, ResolutionFailed(gai))
           /\ UNCHANGED <<remote_sockfd, openfds, held, backlog>>
         ELSE
           \E cands \in sys.conns :
             LET l == ConnectLoop(cands, remote_sockfd[e], openfds) IN
             /\ openfds' = l.open
             /\ held' = [held EXCEPT ![e] = @ \cup (l.open \ openfds)]
             /\ IF l.out = "ok" THEN
                  \* ::connect succeeds only against a listening peer with
                  \* room in its backlog of one
                  /\ listening[Other(e)] /\ backlog[Other(e)] = {}
                  /\ remote_sockfd' = [remote_sockfd EXCEPT ![e] = l.remote_sockfd]
                  /\ backlog' = [backlog EXCEPT ![Other(e)] = {e}]
                  /\ Returns(e, "connect", was)
                ELSE
                  /\ remote_sockfd' = [remote_sockfd EXCEPT ![e] = nullopt]
                  /\ Throws(e, "connect", was, ConnectFailed)
                  /\ UNCHANGED backlog
  /\ UNCHANGED <<sockfd, packet_len, errno, listening, io, iofail>>
  /\ UNCHANGED <<netVars, sendVars, recvVars, closelog, role>>

\* ------------------------------------------------------------- destructor
\* a destructor that closes the local socket first
Closes_local_first(e) ==
  (IF is_bound(e) THEN sockfd[e] ELSE <<>>)
    \o (IF is_connected(e) THEN remote_sockfd[e] ELSE <<>>)
\* the close() calls of the destructor, in order
Closes(e) ==
  (IF is_connected(e) THEN remote_sockfd[e] ELSE <<>>)
    \o (IF is_bound(e) THEN sockfd[e] ELSE <<>>)

Destroy(e) ==
  /\ pc[e] \in {"idle", "thrown"}
  /\ pc' = [pc EXCEPT ![e] = "dead"]
  /\ closelog' = [closelog EXCEPT ![e] = @ \o Closes(e)]
  /\ openfds' = openfds \ Fds(Closes(e))
  /\ held' = [held EXCEPT ![e] = @ \ Fds(Closes(e))]
  /\ fin' = [fin EXCEPT ![Other(e)] = @ \/ is_connected(e)]
  /\ listening' = [listening EXCEPT ![e] = FALSE]
  /\ UNCHANGED <<sockfd, remote_sockfd, packet_len, errno, backlog, result, io, iofail>>
  /\ UNCHANGED <<inflight, rcvbuf, wire, sendVars, recvVars, role>>

\* a caller that catches the TcpError inside the scope of the object and
\* goes on using it: a throw leaves the object as the call left it
Catch(e) ==
  /\ pc[e] = "thrown"
  /\ pc' = [pc EXCEPT ![e] = "idle"]
  /\ UNCHANGED <<lifeVars, netVars, sendVars, recvVars, result, io, iofail, closelog, role>>

\* ------------------------------------------------------------------- send
\* a chunk as long as the whole packet
SendCount_whole(plen, data_size, offset) ==
  Min(plen, data_size - offset) % 256
\* count = std::min((unsigned long)packet_len - 1, data_size - offset),
\* stored in a uint8_t.  The subtraction is done in unsigned long: for
\* packet_len = 0 it wraps to ULONG_MAX, which is above every data_size.
SendCount(plen, data_size, offset) ==
  (IF plen = 0 THEN data_size - offset
   ELSE Min(plen - 1, data_size - offset)) % 256

\* packet[0] = count; packet[i] = data[i - 1 + offset] for i in 1..count;
\* the other bytes of the vector keep what they held
FillPacket(packet, data, offset, count) ==
  [p \in 1..Len(packet) |->
     IF p = 1 THEN count
     ELSE IF p - 1 <= count THEN data[p - 1 + offset]
     ELSE packet[p]]

\* the guards, the locals and the first test of the for condition
send(e, data) ==
  /\ pc[e] = "idle"
  /\ LET was == Life(e) IN
     IF ~is_bound(e) THEN
       /\ Throws(e, "send", was, NotBound)
       /\ UNCHANGED <<sendVars, io>>
     ELSE IF ~is_connected(e) THEN
       /\ Throws(e, "send", was, NotConnected)
       /\ UNCHANGED <<sendVars, io>>
     ELSE
       /\ s_data' = [s_data EXCEPT ![e] = data]
       /\ s_offset' = [s_offset EXCEPT ![e] = 0]
       /\ s_packet' = [s_packet EXCEPT ![e] = Zeros(packet_len[e])]
       /\ written' = [written EXCEPT ![e] = <<>>]
       /\ sentlog' = [sentlog EXCEPT ![e] = Append(@, data)]
       /\ io' = [io EXCEPT ![e] = 0]
       /\ IF 0 < Len(data)
          THEN Enters(e, "send", was)
          ELSE Returns(e, "send", was)
  /\ UNCHANGED <<lifeVars, netVars, recvVars, iofail, closelog, role>>

\* one iteration of the for loop: build the packet, ::send it, advance
\* offset and test the condition again
send_loop(e, sys) ==
  /\ pc[e] = "send"
  /\ LET count  == SendCount(packet_len[e], Len(s_data[e]), s_offset[e])
         packet == FillPacket(s_packet[e], s_data[e], s_offset[e], count)
         offset == s_offset[e] + count
     IN
     \* writing packet[0] or packet[count] at an index >= packet.size() is
     \* undefined: the write faults, or lands behind the vector and the
     \* call goes on
     \/ /\ count >= Len(s_packet[e])
        /\ pc' = [pc EXCEPT ![e] = "crash"]
        /\ UNCHANGED <<s_packet, io, errno, iofail, inflight, wire, written, s_offset, result>>
     \/ /\ s_packet' = [s_packet EXCEPT ![e] = packet]
        /\ io' = [io EXCEPT ![e] = @ + 1]
        /\ \E en \in sys.send :
             IF en # 0 THEN
               \* ::send returned -1
               /\ errno' = [errno EXCEPT ![e] = en]
               /\ iofail' = [iofail EXCEPT ![e] = TRUE]
               /\ Throws(e, "send", result[e].was, WriteFailed(en))
               /\ UNCHANGED <<inflight, wire, written, s_offset>>
             ELSE
               \* ::send returned the number of bytes it took, which the
               \* code does not look at
               \E short \in sys.short :
                 LET taken == SubSeq(packet, 1, Len(packet) - short) IN
                 /\ short <= Len(packet)
                 /\ inflight' = [inflight EXCEPT ![Other(e)] = Append(@, taken)]
                 /\ wire' = [wire EXCEPT ![Other(e)] = Append(@, taken)]
                 /\ written' = [written EXCEPT ![e] = Append(@, taken)]
                 /\ s_offset' = [s_offset EXCEPT ![e] = offset]
                 /\ UNCHANGED <<errno, iofail>>
                 /\ IF offset < Len(s_data[e])
                    THEN UNCHANGED <<pc, result>>
                    ELSE Returns(e, "send", result[e].was)
  /\ UNCHANGED <<sockfd, remote_sockfd, packet_len, listening, backlog, openfds, held>>
  /\ UNCHANGED <<rcvbuf, fin, s_data, sentlog, recvVars, closelog, role>>

\* ------------------------------------------------------------------- recv
recv(e) ==
  /\ pc[e] = "idle"
  /\ LET was == Life(e) IN
     IF ~is_bound(e) THEN
       /\ Throws(e, "recv", was, NotBound)
       /\ UNCHANGED <<r_data, r_packet, r_i, io>>
     ELSE IF ~is_connected(e) THEN
       /\ Throws(e, "recv", was, NotConnected)
       /\ UNCHANGED <<r_data, r_packet, r_i, io>>
     ELSE
       /\ r_data' = [r_data EXCEPT ![e] = <<>>]
       /\ r_packet' = [r_packet EXCEPT ![e] = Zeros(packet_len[e])]
       /\ r_i' = [r_i EXCEPT ![e] = 0]
       /\ io' = [io EXCEPT ![e] = 0]
       /\ Enters(e, "recv", was)
  /\ UNCHANGED <<lifeVars, netVars, sendVars, recvlog, iofail, closelog, role>>

\* what a blocking ::recv(fd, buf, n, 0) returns now: the bytes at hand, at
\* most n of them; 0 once the peer has closed and nothing is left; it
\* blocks (no value) while the stream is open and empty
RecvReady(e) ==
  rcvbuf[e] # <<>> \/ (fin[e] /\ inflight[e] = <<>>)
Received(e) == Min(Len(rcvbuf[e]), packet_len[e])

\* an append loop that takes every byte behind the count byte
Chunk_whole(packet, count) ==
  [i \in 1..(Len(packet) - 1) |-> packet[i + 1]]
\* the bytes of the packet vector the append loop may read in range
Chunk(packet, count) ==
  [i \in 1..Min(count, Len(packet) - 1) |-> packet[i + 1]]
\* how many reads of the append loop fall outside the vector
Overrun(packet, count) ==
  IF count > Len(packet) - 1 THEN count - (Len(packet) - 1) ELSE 0

\* one iteration of the while (true) loop
recv_loop(e, sys) ==
  /\ pc[e] = "recv"
  /\ io' = [io EXCEPT ![e] = @ + 1]
  /\ \E en \in sys.recv :
     IF en # 0 THEN
       \* ::recv returned -1
       /\ errno' = [errno EXCEPT ![e] = en]
       /\ iofail' = [iofail EXCEPT ![e] = TRUE]
       /\ Throws(e, "recv", result[e].was, ReadFailed(en))
       /\ UNCHANGED <<rcvbuf, r_data, r_packet, r_i, recvlog>>
     ELSE
       /\ RecvReady(e)
       /\ LET received == Received(e)
              packet   == [p \in 1..Len(r_packet[e]) |->
                             IF p <= received THEN rcvbuf[e][p] ELSE r_packet[e][p]]
          IN
          /\ rcvbuf' = [rcvbuf EXCEPT ![e] = SubSeq(@, received + 1, Len(@))]
          /\ r_packet' = [r_packet EXCEPT ![e] = packet]
          /\ UNCHANGED errno
          /\ IF received # packet_len[e] THEN
               /\ iofail' = [iofail EXCEPT ![e] = TRUE]
               /\ Throws(e, "recv", result[e].was, ShortRead)
               /\ UNCHANGED <<r_data, r_i, recvlog>>
             ELSE
               LET count == packet[1]
                   over  == Overrun(packet, count)
               IN
               \* reading packet[i] for i >= packet.size() is undefined:
               \* the read faults, or yields whatever lies behind the vector
               \/ /\ over > 0
                  /\ pc' = [pc EXCEPT ![e] = "crash"]
                  /\ r_i' = [r_i EXCEPT ![e] = Len(packet)]
                  /\ r_data' = [r_data EXCEPT ![e] = @ \o Chunk(packet, count)]
                  /\ UNCHANGED <<result, recvlog, iofail>>
               \/ \E g \in [1..over -> Garbage] :
                  LET data == r_data[e] \o Chunk(packet, count) \o g IN
                  /\ r_data' = [r_data EXCEPT ![e] = data]
                  /\ r_i' = [r_i EXCEPT ![e] = count + 1]
                  /\ UNCHANGED iofail
                  /\ IF count < packet_len[e] - 1
                     THEN /\ recvlog' = [recvlog EXCEPT ![e] = Append(@, data)]
                          /\ Returns(e, "recv", result[e].was)
                     ELSE UNCHANGED <<pc, recvlog, result>>
  /\ UNCHANGED <<sockfd, remote_sockfd, packet_len, listening, backlog, openfds, held>>
  /\ UNCHANGED <<inflight, fin, wire, sendVars, closelog, role>>

\* ------------------------------------------------------------ the network
\* the oldest segment on its way to e arrives
Deliver(e) ==
  /\ inflight[e] # <<>>
  /\ rcvbuf' = [rcvbuf EXCEPT ![e] = @ \o Head(inflight[e])]
  /\ inflight' = [inflight EXCEPT ![e] = Tail(@)]
  /\ UNCHANGED <<lifeVars, fin, wire, sendVars, recvVars, pc, result, io, iofail, closelog, role>>

\* the packets of n bytes recv takes as well formed: a count byte of at
\* most n - 1, then n - 1 bytes of any value
WellFormed(n) ==
  {fr \in [1..n -> (0..(n - 1)) \cup ForgedBytes] :
     /\ fr[1] <= n - 1
     /\ \A p \in 2..n : fr[p] \in ForgedBytes}

\* the program at the other end of e's connection writes a packet itself,
\* with whatever it likes in the padding
Forge(e, fr) ==
  /\ remote_sockfd[e] \notin {<<>>, <<0 - 1>>}
  /\ fr \in WellFormed(packet_len[e])
  /\ inflight' = [inflight EXCEPT ![e] = Append(@, fr)]
  /\ wire' = [wire EXCEPT ![e] = Append(@, fr)]
  /\ UNCHANGED <<lifeVars, rcvbuf, fin, sendVars, recvVars, pc, result, io, iofail, closelog, role>>

\* TCP is a byte stream: the network may split a segment in two
Fragment(e, k) ==
  /\ inflight[e] # <<>>
  /\ k \in 1..(Len(Head(inflight[e])) - 1)
  /\ LET h == Head(inflight[e]) IN
     inflight' = [inflight EXCEPT ![e] =
                    <<SubSeq(h, 1, k), SubSeq(h, k + 1, Len(h))>> \o Tail(@)]
  /\ UNCHANGED <<lifeVars, rcvbuf, fin, wire, sendVars, recvVars, pc, result, io, iofail, closelog, role>>

\* ---------------------------------------------------------- specifications
\* send calls that got past the state guards, so far
Sends == Len(sentlog[1]) + Len(sentlog[2])

\* the calls made on the two objects while both are alive, and the steps
\* of the network; every system call may fail
Next ==
  \/ \E e \in E : bind(e, Faulty)
  \/ \E e \in E : accept(e, Faulty)
  \/ \E e \in E : accept_loop(e, Faulty)
  \/ \E e \in E : connect(e, Faulty)
  \/ \E e \in E, data \in Msgs : Sends < MaxSends /\ send(e, data)
  \/ \E e \in E : send_loop(e, Faulty)
  \/ \E e \in E : recv(e)
  \/ \E e \in E : recv_loop(e, Faulty)
  \/ \E e \in E : Deliver(e)

Spec == Init /\ [][Next]_vars

\* the same program when objects are also destroyed, which closes their
\* end of the connection, and the network also splits segments
NextPartial ==
  \/ Next
  \/ \E e \in E : Destroy(e)
  \/ \E e \in E, k \in 1..MaxFrame : Fragment(e, k)

SpecPartial == Init /\ [][NextPartial]_vars

\* the two peers constructed with packet lengths of their own
InitMixed == \E f \in [E -> FrameSizes] : TcpSocketInit(f) /\ role = Unscripted

SpecMixed == InitMixed /\ [][Next]_vars

\* several sends in a row, with every system call succeeding
NextBurst ==
  \/ \E e \in E : bind(e, Reliable)
  \/ \E e \in E : accept(e, Reliable)
  \/ \E e \in E : accept_loop(e, Reliable)
  \/ \E e \in E : connect(e, Reliable)
  \/ \E e \in E, data \in Msgs : Sends < MaxBurst /\ send(e, data)
  \/ \E e \in E : send_loop(e, Reliable)
  \/ \E e \in E : recv(e)
  \/ \E e \in E : recv_loop(e, Reliable)
  \/ \E e \in E : Deliver(e)

SpecBurst == Init /\ [][NextBurst]_vars

\* the life of the handles: calls go on after a TcpError was caught, and
\* objects are destroyed
\* (the handles do not depend on the bytes sent: one packet length and
\* one-byte vectors)
InitLife == TcpSocketInit([e \in E |-> 2]) /\ role = Unscripted

NextLife ==
  \/ \E e \in E : bind(e, Faulty)
  \/ \E e \in E : accept(e, Faulty)
  \/ \E e \in E : accept_loop(e, Faulty)
  \/ \E e \in E : connect(e, Faulty)
  \/ \E e \in E : Sends < MaxSends /\ send(e, Iota(1))
  \/ \E e \in E : send_loop(e, Faulty)
  \/ \E e \in E : recv(e)
  \/ \E e \in E : recv_loop(e, Faulty)
  \/ \E e \in E : Deliver(e)
  \/ \E e \in E : Catch(e)
  \/ \E e \in E : Destroy(e)

SpecLife == InitLife /\ [][NextLife]_vars

\* one send on a connection where no call fails and ::send may take only a
\* part of the buffer
NextShort ==
  \/ \E e \in E : bind(e, Interrupted)
  \/ \E e \in E : accept(e, Interrupted)
  \/ \E e \in E : accept_loop(e, Interrupted)
  \/ \E e \in E : connect(e, Interrupted)
  \/ \E e \in E, data \in Msgs : Sends < MaxSends /\ send(e, data)
  \/ \E e \in E : send_loop(e, Interrupted)
  \/ \E e \in E : recv(e)
  \/ \E e \in E : recv_loop(e, Interrupted)
  \/ \E e \in E : Deliver(e)

SpecShort == Init /\ [][NextShort]_vars

\* one send on a reliable connection, with threads that keep running and a
\* network that keeps delivering: a call that can take its next step does,
\* and a segment in flight arrives
NextLive ==
  \/ \E e \in E : bind(e, Reliable)
  \/ \E e \in E : accept(e, Reliable)
  \/ \E e \in E : accept_loop(e, Reliable)
  \/ \E e \in E : connect(e, Reliable)
  \/ \E e \in E, data \in Msgs : Sends < MaxSends /\ send(e, data)
  \/ \E e \in E : send_loop(e, Reliable)
  \/ \E e \in E : recv(e)
  \/ \E e \in E : recv_loop(e, Reliable)
  \/ \E e \in E : Deliver(e)

SpecLive ==
  /\ Init /\ [][NextLive]_vars
  /\ \A e \in E : WF_vars(accept_loop(e, Reliable))
  /\ \A e \in E : WF_vars(send_loop(e, Reliable))
  /\ \A e \in E : WF_vars(recv_loop(e, Reliable))
  /\ \A e \in E : WF_vars(Deliver(e))

\* recv reading packets that were written by hand to the object that
\* accepted the connection: packet length 3, no call fails
InitPad == TcpSocketInit([e \in E |-> 3]) /\ role = Unscripted

Forged == Len(wire[1]) + Len(wire[2])

NextPad ==
  \/ \E e \in E : bind(e, Reliable)
  \/ \E e \in E : accept(e, Reliable)
  \/ \E e \in E : accept_loop(e, Reliable)
  \/ \E e \in E : connect(e, Reliable)
  \/ \E e \in E : \E fr \in WellFormed(packet_len[e]) :
       Forged < MaxForge /\ listening[e] /\ Forge(e, fr)
  \/ \E e \in E : recv(e)
  \/ \E e \in E : recv_loop(e, Reliable)
  \/ \E e \in E : Deliver(e)

SpecPad == InitPad /\ [][NextPad]_vars

\* send on objects constructed with a packet length below 2, which the
\* constructor takes like any other; no call fails
InitTiny == \E f \in TinySizes : TcpSocketInit([e \in E |-> f]) /\ role = Unscripted

NextTiny ==
  \/ \E e \in E : bind(e, Reliable)
  \/ \E e \in E : accept(e, Reliable)
  \/ \E e \in E : accept_loop(e, Reliable)
  \/ \E e \in E : connect(e, Reliable)
  \/ \E e \in E, data \in Msgs : Sends < MaxSends /\ send(e, data)
  \/ \E e \in E : io[e] < MaxSpin /\ send_loop(e, Reliable)
  \/ \E e \in E : Deliver(e)

SpecTiny == InitTiny /\ [][NextTiny]_vars

\* ------------------------------------------------------- the test program
TestPacketLen == 32
TestDataSize  == 48
\* for (auto i = 0; i < 48; i++) data.push_back(i)
TestData == [i \in 1..TestDataSize |-> (i - 1) % 256]
\* data[i] *= 2 on uint8_t elements
Doubled(data) == [i \in 1..Len(data) |-> (data[i] * 2) % 256]

\* the calls each thread function makes on its object, in order; the
\* swapped pair has the connecting thread send first and the accepting
\* thread echo
Script(r) ==
  CASE r = "thread1"         -> <<"bind", "accept", "send", "recv">>
    [] r = "thread2"         -> <<"bind", "connect", "recv", "send">>
    [] r = "thread1_swapped" -> <<"bind", "accept", "recv", "send">>
    [] r = "thread2_swapped" -> <<"bind", "connect", "send", "recv">>
    [] OTHER                 -> <<>>
\* which thread sends what it has built, which sends what it received
Sender(r) == r \in {"thread1", "thread2_swapped"}

\* the calls of its script the thread driving e has completed
Completed(e) ==
  LET script == Script(role[e])
      at == {k \in 1..Len(script) : script[k] = result[e].op}
  IN  IF at = {} THEN 0
      ELSE LET k == CHOOSE k \in at : TRUE
           IN  IF pc[e] = "idle" /\ result[e].err = NoError THEN k ELSE k - 1
\* the thread driving e is about to call op
Calls(e, op) ==
  /\ pc[e] = "idle"
  /\ Completed(e) < Len(Script(role[e]))
  /\ Script(role[e])[Completed(e) + 1] = op
\* the vector the thread driving e passes to send
Outgoing(e) ==
  IF Sender(role[e]) THEN TestData
  ELSE Doubled(recvlog[e][Len(recvlog[e])])

InitEcho ==
  /\ TcpSocketInit([e \in E |-> TestPacketLen])
  /\ \E a \in E :
       \/ role = [e \in E |-> IF e = a THEN "thread1" ELSE "thread2"]
       \/ role = [e \in E |-> IF e = a THEN "thread1_swapped" ELSE "thread2_swapped"]

NextEcho ==
  \/ \E e \in E : Calls(e, "bind") /\ bind(e, Reliable)
  \/ \E e \in E : Calls(e, "accept") /\ accept(e, Reliable)
  \/ \E e \in E : accept_loop(e, Reliable)
  \/ \E e \in E : Calls(e, "connect") /\ connect(e, Reliable)
  \/ \E e \in E : Calls(e, "send") /\ send(e, Outgoing(e))
  \/ \E e \in E : send_loop(e, Reliable)
  \/ \E e \in E : Calls(e, "recv") /\ recv(e)
  \/ \E e \in E : recv_loop(e, Reliable)
  \/ \E e \in E : Deliver(e)

\* both threads run until they return: a thread that can take a step does
SpecEcho == InitEcho /\ [][NextEcho]_vars /\ WF_vars(NextEcho)

\* ------------------------------------------------------------- properties
\* send(e) has returned normally and e has started no other send since
SendDone(e) ==
  /\ sentlog[e] # <<>>
  /\ pc[e] # "send"
  /\ ~(result[e].op = "send" /\ result[e].err # NoError)

LastSent(e) == sentlog[e][Len(sentlog[e])]

\* C1: round trip.  When a peer's send(m) has returned and the other peer
\* has called recv, with no system call failing on either side, recv has
\* returned m, or it is still reading and bytes of m are yet to be read.
RoundTrip ==
  \A e \in E :
    LET o == Other(e) IN
    (/\ ~iofail[e] /\ ~iofail[o]
     /\ sentlog[o] # <<>> /\ pc[o] # "send"
     /\ (pc[e] = "recv" \/ recvlog[e] # <<>>))
    => \/ recvlog[e] # <<>> /\ recvlog[e][1] = sentlog[o][1]
       \/ /\ pc[e] = "recv" /\ recvlog[e] = <<>>
          /\ (inflight[e] # <<>> \/ rcvbuf[e] # <<>>)

\* C2: message boundaries.  The vectors recv has returned on one peer are,
\* in order and one per call, the first vectors passed to send on the other.
BoundariesPreserved ==
  \A e \in E :
    LET o == Other(e) IN
    /\ Len(recvlog[e]) <= Len(sentlog[o])
    /\ \A j \in 1..Len(recvlog[e]) : recvlog[e][j] = sentlog[o][j]

\* C3: terminal frame marker.  Of the packets a completed send has written,
\* the last has a length byte below packet_len - 1 and every earlier one has
\* a length byte of exactly packet_len - 1.
TerminalMarker ==
  \A e \in E :
    SendDone(e) =>
      \A j \in 1..Len(written[e]) :
        IF j = Len(written[e])
        THEN written[e][j][1] < packet_len[e] - 1
        ELSE written[e][j][1] = packet_len[e] - 1

\* the number of frames the frame-count rule gives for k bytes, c per frame
ClaimedFrames(k, c) ==
  IF k = 0 THEN 1
  ELSE IF k % c = 0 THEN (k \div c) + 1
  ELSE (k + c - 1) \div c

\* C4: frame count.  A completed send of k bytes has written 1 packet when
\* k = 0, k/c + 1 packets when k is a positive multiple of c = packet_len - 1,
\* and ceil(k/c) packets otherwise.
FrameCount ==
  \A e \in E :
    SendDone(e) =>
      Len(written[e]) = ClaimedFrames(Len(LastSent(e)), packet_len[e] - 1)

\* recv of e has read a whole packet whose length byte is above
\* packet_len - 1
MalformedRead(e) ==
  /\ result[e].op = "recv"
  /\ io[e] > 0
  /\ result[e].err.message \notin {"invalid received packet length", "couldn't send data"}
  /\ r_packet[e][1] > packet_len[e] - 1

\* C5: malformed frame rejection.  Once recv has read a packet whose length
\* byte exceeds packet_len - 1, the call has thrown, and the append loop has
\* read no element of the packet vector at an index >= packet_len.
MalformedRejected ==
  \A e \in E :
    MalformedRead(e) =>
      /\ pc[e] \in {"thrown", "dead"}
      /\ result[e].err \notin {NoError, Running}
      /\ r_i[e] <= packet_len[e]

\* C6: lifecycle state guards.  accept and connect called on an unbound
\* object throw "socket unbound"; accept and connect called on a connected
\* object throw "socket already connected"; bind called on a bound or
\* connected object throws "socket already bound".
StateGuards ==
  \A e \in E :
    LET r == result[e] IN
    /\ (r.op \in {"accept", "connect"} /\ r.was = "Unbound")
         => r.err = [code |-> 0 - 2, message |-> "socket unbound"]
    /\ (r.op \in {"accept", "connect"} /\ r.was = "Connected")
         => r.err = [code |-> 0 - 1, message |-> "socket already connected"]
    /\ (r.op = "bind" /\ r.was \in {"Bound", "Connected"})
         => r.err = [code |-> 0 - 1, message |-> "socket already bound"]

\* one peer has called bind while connected, the other connect while
\* connected, and both calls were rejected
StateGuardsWitness ==
  \E e \in E :
    /\ result[e].op = "bind" /\ result[e].was = "Connected"
    /\ result[e].err.message = "socket already bound"
    /\ result[Other(e)].op = "connect" /\ result[Other(e)].was = "Connected"
    /\ result[Other(e)].err.message = "socket already connected"

NoPartialState ==
  \A e \in E :
    LET r == result[e] IN
    (r.err \notin {NoError, Running})
      => /\ (r.op = "bind" /\ r.was = "Unbound")
              => sockfd[e] = <<>>
         /\ (r.op \in {"accept", "connect"} /\ r.was = "Bound")
              => (sockfd[e] # <<>> /\ remote_sockfd[e] = <<>>)

\* C9: exact read under partial delivery.  recv throws "invalid received
\* packet length" only when the peer has closed the connection.
ShortReadOnlyOnClose ==
  \A e \in E :
    (result[e].op = "recv" /\ result[e].err.message = "invalid received packet length")
      => fin[e]

\* C10: accept retries only transient failures.  The object is never left in
\* the accept loop, about to retry, after ::accept has failed with an errno
\* that is not transient.
NonTransientEscalates ==
  \A e \in E :
    ~(/\ pc[e] = "accept"
      /\ remote_sockfd[e] = <<0 - 1>>
      /\ errno[e] \notin {4})

\* C11: handle ownership and teardown.  The destructor passes to close()
\* the peer descriptor and then the local one, each only if the object
\* holds it; these are exactly the descriptors the object got from socket()
\* and ::accept() and had not closed, each closed once, and none is left.
HandlesReleasedOnce ==
  [][\A e \in E :
       (pc[e] # "dead" /\ pc'[e] = "dead") =>
         /\ closelog'[e] = remote_sockfd[e] \o sockfd[e]
         /\ Fds(closelog'[e]) = held[e]
         /\ Len(closelog'[e]) = Cardinality(held[e])
         /\ held'[e] = {}]_vars

\* an object was destroyed while connected, after a call on it had thrown
HandlesReleasedWitness ==
  \E e \in E :
    /\ pc[e] = "dead"
    /\ Len(closelog[e]) = 2
    /\ result[e].err.code # 0

\* the thread driving e has made all its calls, and its recv returned v
EchoReturned(e, v) ==
  /\ pc[e] = "idle"
  /\ Completed(e) = 4
  /\ recvlog[e] = <<v>>

\* C12: echo scenario.  With packet length 32, both threads of the test
\* eventually return; the recv of the thread that echoes has returned the
\* 48 bytes 0..47 and the recv of the thread that sent them has returned
\* 0, 2, .., 94, whichever thread accepts and whichever sends first.
EchoScenario ==
  <>(\A e \in E :
       IF Sender(role[e])
       THEN EchoReturned(e, [i \in 1..48 |-> 2 * (i - 1)])
       ELSE EchoReturned(e, [i \in 1..48 |-> i - 1]))

\* the run of the swapped pair has ended with both vectors received
EchoWitness ==
  /\ \E e \in E : role[e] = "thread1_swapped"
  /\ \A e \in E : pc[e] = "idle" /\ result[e].err = NoError /\ Len(recvlog[e]) = 1
  /\ \E e \in E : Len(written[e]) = 2 /\ recvlog[e][1][48] = 94

\* C13: handle invariant.  Whenever no call is under way on an object, after
\* any calls including failing ones, the object holds a peer handle only if
\* it holds a local handle.
PeerOnlyIfLocal ==
  \A e \in E :
    pc[e] \in {"idle", "thrown"} =>
      (remote_sockfd[e] # <<>> => sockfd[e] # <<>>)

\* a connected object holds both handles after a bind on it was rejected
PeerOnlyIfLocalWitness ==
  \E e \in E :
    /\ pc[e] \in {"idle", "thrown"}
    /\ result[e].op = "bind" /\ result[e].was = "Connected"
    /\ result[e].err.code = 0 - 1
    /\ remote_sockfd[e] # <<>> /\ sockfd[e] # <<>>

\* C14: lifecycle monotonicity.  No step of a living object, of a call that
\* returns or of one that throws, takes away a handle the object holds: a
\* bound object stays bound and a connected object stays connected.
NoBackwardStep ==
  [][\A e \in E :
       pc'[e] # "dead" =>
         /\ sockfd[e] # <<>> => sockfd'[e] # <<>>
         /\ remote_sockfd[e] # <<>> => remote_sockfd'[e] # <<>>]_vars

\* a connected object is still connected after its ::send or ::recv failed
\* and the error was caught
NoBackwardStepWitness ==
  \E e \in E :
    /\ pc[e] = "idle"
    /\ result[e].op \in {"send", "recv"}
    /\ result[e].err.message = "couldn't send data"
    /\ remote_sockfd[e] # <<>> /\ sockfd[e] # <<>>

\* C15: full write.  When send has returned normally, every buffer ::send
\* took from it during the call was a whole packet of packet_len bytes.
FullWrite ==
  \A e \in E :
    SendDone(e) =>
      \A j \in 1..Len(written[e]) : Len(written[e][j]) = packet_len[e]

\* C16: zero padding.  In every packet ::send has taken from send, the
\* bytes behind the count byte and the count payload bytes are all zero.
ZeroPadding ==
  \A e \in E :
    \A j \in 1..Len(written[e]) :
      LET frame == written[e][j] IN
      \A p \in (frame[1] + 2)..Len(frame) : frame[p] = 0

\* C17: liveness of receive.  On a reliable connection with fair
\* scheduling, when send(m) has returned on one peer and the other peer is
\* in its first recv, that recv eventually returns, for every length of m.
ReceiveReturns ==
  \A e \in E :
    (pc[e] = "recv" /\ recvlog[e] = <<>> /\ SendDone(Other(e)))
      ~> (recvlog[e] # <<>>)

\* what a sequence of packets says without its padding: the payload bytes
\* of the packets up to and including the first n
RECURSIVE PayloadUpTo(_, _)
PayloadUpTo(frames, n) ==
  IF n = 0 THEN <<>>
  ELSE PayloadUpTo(frames, n - 1) \o SubSeq(frames[n], 2, frames[n][1] + 1)
\* the packets before the first short one are all full
FirstShort(frames, n, plen) ==
  /\ n \in 1..Len(frames)
  /\ frames[n][1] < plen - 1
  /\ \A j \in 1..(n - 1) : frames[j][1] = plen - 1

\* C18: padding is never interpreted.  What the first recv on a stream of
\* well-formed packets returns, and how many packets it reads, is a function
\* of the count bytes and payload bytes alone: it has read the packets up to
\* the first short one and returned their payloads, whatever the padding.
PaddingIgnored ==
  \A e \in E :
    (pc[e] = "idle" /\ result[e].op = "recv" /\ Len(recvlog[e]) = 1)
      => /\ FirstShort(wire[e], io[e], packet_len[e])
         /\ recvlog[e][1] = PayloadUpTo(wire[e], io[e])

\* recv has returned after a full packet and a short one whose padding
\* bytes are not zero
PaddingIgnoredWitness ==
  \E e \in E :
    /\ pc[e] = "idle" /\ result[e].op = "recv" /\ Len(recvlog[e]) = 1
    /\ io[e] = 2
    /\ wire[e][2][1] = 0 /\ wire[e][2][2] = 1 /\ wire[e][2][3] = 1

\* C19: send termination.  For every packet length the constructor takes,
\* when every ::send succeeds, each iteration of send's loop moves offset
\* forward by at least 1 and leaves the call running or returned.
SendAdvances ==
  [][\A e \in E :
       (pc[e] = "send" /\ <<pc[e], io[e]>> # <<pc'[e], io'[e]>>) =>
         /\ s_offset'[e] >= s_offset[e] + 1
         /\ pc'[e] \in {"send", "idle"}]_vars

\* C20: guard failures have no effect.  A call that throws one of the four
\* state-guard errors changes neither handle of the object, opens and
\* closes no descriptor, does not start listening, and does no ::send or
\* ::recv: nothing is added to or taken from either byte stream.
GuardsHaveNoEffect ==
  [][\A e \in E :
       (/\ pc[e] = "idle" /\ pc'[e] = "thrown"
        /\ result'[e].err \in
             {[code |-> 0 - 1, message |-> "socket already bound"],
              [code |-> 0 - 2, message |-> "socket unbound"],
              [code |-> 0 - 1, message |-> "socket already connected"],
              [code |-> 0 - 2, message |-> "socket disconnected"]})
       => /\ sockfd' = sockfd /\ remote_sockfd' = remote_sockfd
          /\ openfds' = openfds /\ held' = held /\ closelog' = closelog
          /\ listening' = listening /\ backlog' = backlog
          /\ io' = io /\ written' = written
          /\ inflight' = inflight /\ rcvbuf' = rcvbuf /\ wire' = wire]_vars

\* accept was rejected on an object that had connected, which still holds
\* its two descriptors and is not listening
GuardsHaveNoEffectWitness ==
  \E e \in E :
    /\ result[e].op = "accept" /\ result[e].was = "Connected"
    /\ result[e].err.message = "socket already connected"
    /\ ~listening[e]
    /\ Cardinality(held[e]) = 2
    /\ held[e] = Fds(sockfd[e]) \cup Fds(remote_sockfd[e])
====
